---- MODULE Spec2Model ----
(***************************************************************************)
(* Task store of the task application: the in-memory task collection      *)
(* (TaskContext.tsx), its persistence to tasks.json, and the calendar and  *)
(* reminder services it drives (calendarService, notificationService).     *)
(*                                                                         *)
(* Time is counted in seconds.  A JavaScript Date is a record with its     *)
(* instant and the identity of the object, because updateTask compares     *)
(* deadlines with !==, which on objects is identity.                       *)
(***************************************************************************)
EXTENDS Integers, Sequences, FiniteSets, TLC

\* ---------------------------------------------------------------- bounds
MaxCalls == 2           \* addTask/updateTask/deleteTask calls in one behaviour
MaxFaults == 1          \* failing calendar, notification and file-system calls

\* ------------------------------------------------------- program constants
ThirtyMinutes == 1800
OneHour == 3600

\* deadlines a form can hand over, relative to the clock: already reached
\* (no reminder is due) and thirty minutes ahead (only the at-deadline
\* reminder is due); the task of the saved file has its deadline an hour
\* ahead (both reminders due)
DeadlineChoices == {0, 1800}
StatusChoices == {"todo", "completed"}

\* ------------------------------------------------------------ JS values
Undefined == [type |-> "undefined"]
NoRef == 0

NewDate(ms, obj) == [type |-> "Date", ms |-> ms, obj |-> obj]

Truthy(v) == v.type # "undefined"

\* a !== b on two values that are Date objects or undefined
StrictNotEqual(a, b) ==
  IF a.type = "Date" /\ b.type = "Date" THEN a.obj # b.obj ELSE a.type # b.type

\* an object allocated now is distinct from the stored one
FreshObj(stored) == IF stored.type = "Date" THEN 1 - stored.obj ELSE 0

Range(s) == {s[k] : k \in 1..Len(s)}

\* ------------------------------------------------------------ JSON
\* Date.prototype.toJSON, used by JSON.stringify: the ISO string of the instant
DateToJSON(v) == IF v.type = "Date" THEN [type |-> "string", ms |-> v.ms] ELSE v

\* new Date(x) for a value read back from JSON
DateFromJSON(v) == NewDate(v.ms, 0)

SessionToJSON(s) ==
  [s EXCEPT !.startTime = DateToJSON(@), !.endTime = DateToJSON(@)]

CommentToJSON(c) == [c EXCEPT !.createdAt = DateToJSON(@)]

TaskToJSON(t) ==
  [t EXCEPT !.createdAt = DateToJSON(@),
            !.updatedAt = DateToJSON(@),
            !.deadline = DateToJSON(@),
            !.startTime = DateToJSON(@),
            !.completedAt = DateToJSON(@),
            !.recurrence = IF Truthy(@) THEN [@ EXCEPT !.endDate = DateToJSON(@)] ELSE @,
            !.timeTracking = IF Truthy(@)
                THEN [@ EXCEPT !.sessions = [k \in 1..Len(@) |-> SessionToJSON(@[k])]]
                ELSE @,
            !.comments = [k \in 1..Len(@) |-> CommentToJSON(@[k])]]

JSONstringify(ts) == [k \in 1..Len(ts) |-> TaskToJSON(ts[k])]

formatSession(s) ==
  [s EXCEPT !.startTime = DateFromJSON(@),
            !.endTime = IF Truthy(@) THEN DateFromJSON(@) ELSE Undefined]

formatTask(t) ==
  [t EXCEPT !.createdAt = DateFromJSON(@),
            !.updatedAt = DateFromJSON(@),
            !.deadline = IF Truthy(@) THEN DateFromJSON(@) ELSE Undefined,
            !.startTime = IF Truthy(@) THEN DateFromJSON(@) ELSE Undefined,
            !.recurrence = IF Truthy(@)
                THEN [@ EXCEPT !.endDate = IF Truthy(@) THEN DateFromJSON(@) ELSE Undefined]
                ELSE Undefined,
            !.timeTracking = IF Truthy(@)
                THEN [@ EXCEPT !.sessions = [k \in 1..Len(@) |-> formatSession(@[k])]]
                ELSE Undefined]

formattedTasks(file) == [k \in 1..Len(file) |-> formatTask(file[k])]

\* ------------------------------------------------------------ reducer
\* a reducer whose DELETE_TASK keeps only the task named, the filter inverted
taskReducer_filterInverted(state, action) ==
  CASE action.type = "ADD_TASK" -> Append(state, action.payload)
    [] action.type = "UPDATE_TASK" ->
         [k \in 1..Len(state) |->
            IF state[k].id = action.payload.id THEN action.payload ELSE state[k]]
    [] action.type = "DELETE_TASK" ->
         SelectSeq(state, LAMBDA t : t.id = action.payload)
    [] action.type = "SET_TASKS" -> action.payload
    [] OTHER -> state

\* a reducer whose UPDATE_TASK leaves the collection as it is
taskReducer_updateIgnored(state, action) ==
  CASE action.type = "ADD_TASK" -> Append(state, action.payload)
    [] action.type = "UPDATE_TASK" -> state
    [] action.type = "DELETE_TASK" ->
         SelectSeq(state, LAMBDA t : t.id # action.payload)
    [] action.type = "SET_TASKS" -> action.payload
    [] OTHER -> state

\* a reducer whose UPDATE_TASK appends the payload when no task has its id
taskReducer_upsert(state, action) ==
  CASE action.type = "ADD_TASK" -> Append(state, action.payload)
    [] action.type = "UPDATE_TASK" ->
         IF \E k \in 1..Len(state) : state[k].id = action.payload.id
           THEN [k \in 1..Len(state) |->
                   IF state[k].id = action.payload.id THEN action.payload ELSE state[k]]
           ELSE Append(state, action.payload)
    [] action.type = "DELETE_TASK" ->
         SelectSeq(state, LAMBDA t : t.id # action.payload)
    [] action.type = "SET_TASKS" -> action.payload
    [] OTHER -> state

taskReducer(state, action) ==
  CASE action.type = "ADD_TASK" -> Append(state, action.payload)
    [] action.type = "UPDATE_TASK" ->
         [k \in 1..Len(state) |->
            IF state[k].id = action.payload.id THEN action.payload ELSE state[k]]
    [] action.type = "DELETE_TASK" ->
         SelectSeq(state, LAMBDA t : t.id # action.payload)
    [] action.type = "SET_TASKS" -> action.payload
    [] OTHER -> state

\* tasks.find(task => task.id === id)
getTaskById(ts, id) ==
  IF \E k \in 1..Len(ts) : ts[k].id = id
  THEN ts[CHOOSE k \in 1..Len(ts) :
            ts[k].id = id /\ \A j \in 1..(k - 1) : ts[j].id # id]
  ELSE Undefined

IsTask(v) == "id" \in DOMAIN v

\* ------------------------------------------------------------ state
VARIABLES
  tasks,             \* useReducer state of TaskProvider
  disk,              \* content of tasks.json, or NoFile
  loadPc,            \* where loadTasks is: "reading", "read", "done"
  loaded,            \* what loadTasks has read from tasks.json
  events,            \* events in the device calendar
  reminders,         \* notifications scheduled on the device
  nextTaskId, nextEvent, nextNotif,   \* ids handed out so far
  clock,             \* new Date(), in seconds
  calls,             \* mutations called so far
  faults,            \* platform calls that have failed so far
  ops,               \* addTask/updateTask/deleteTask calls suspended on an await
  last               \* the mutation that returned, or the write that settled, in the step just taken

\* TaskAssistantProvider and the AI gateway
VARIABLES
  aiEnv,             \* env.AI as AIService read it at construction: enabled, apiKey
  replies,           \* the calls of aiService made so far, with what they returned
  recommendations,   \* useState of TaskAssistantProvider
  isAnalyzing,       \* useState of TaskAssistantProvider
  passes             \* runs of analyzeTasksAndGenerateRecommendations suspended on the AI call

assistantVars == <<aiEnv, replies, recommendations, isAnalyzing, passes>>

vars == <<tasks, disk, loadPc, loaded, events, reminders, nextTaskId, nextEvent, nextNotif,
          clock, calls, faults, ops, last, aiEnv, replies, recommendations, isAnalyzing, passes>>

\* env.AI of the shipped configuration; the empty string is the unset key
ShippedEnv == [enabled |-> TRUE, apiKey |-> "sk-or-v1"]

\* the assistant after construction
AssistantIdle ==
  /\ aiEnv = ShippedEnv
  /\ replies = <<>>
  /\ recommendations = <<>>
  /\ isAnalyzing = FALSE
  /\ passes = <<>>

NoFile == <<[type |-> "nofile"]>>
NoOp == [kind |-> "none"]

\* ------------------------------------------------------------ calendarService
CalendarEvent(id, deadline) ==
  [id |-> id, start |-> deadline.ms, end |-> deadline.ms + OneHour]

\* addTaskToCalendar without its catch block: createEventAsync's error escapes
addTaskToCalendar_uncaught(task, evs, nextEv, ready, createOk) ==
  IF ~Truthy(task.deadline) \/ ~ready
  THEN [threw |-> FALSE, value |-> NoRef, events |-> evs, used |-> 0]
  ELSE IF createOk
  THEN [threw |-> FALSE, value |-> nextEv + 1,
        events |-> evs \cup {CalendarEvent(nextEv + 1, task.deadline)}, used |-> 1]
  ELSE [threw |-> TRUE, value |-> NoRef, events |-> evs, used |-> 0]

\* ready: deviceCalendarId is set, or setupCalendar() has set it now
addTaskToCalendar(task, evs, nextEv, ready, createOk) ==
  IF ~Truthy(task.deadline) \/ ~ready
  THEN [threw |-> FALSE, value |-> NoRef, events |-> evs, used |-> 0]
  ELSE IF createOk
  THEN [threw |-> FALSE, value |-> nextEv + 1,
        events |-> evs \cup {CalendarEvent(nextEv + 1, task.deadline)}, used |-> 1]
  ELSE [threw |-> FALSE, value |-> NoRef, events |-> evs, used |-> 0]

updateTaskInCalendar(task, eventId, evs, ready, updateOk) ==
  IF ~Truthy(task.deadline) \/ eventId = NoRef \/ ~ready
  THEN [threw |-> FALSE, value |-> FALSE, events |-> evs]
  ELSE IF updateOk /\ \E e \in evs : e.id = eventId
  THEN [threw |-> FALSE, value |-> TRUE,
        events |-> {e \in evs : e.id # eventId} \cup {CalendarEvent(eventId, task.deadline)}]
  ELSE [threw |-> FALSE, value |-> FALSE, events |-> evs]

removeTaskFromCalendar(eventId, evs, ready, deleteOk) ==
  IF ~ready
  THEN [threw |-> FALSE, value |-> FALSE, events |-> evs]
  ELSE IF deleteOk /\ \E e \in evs : e.id = eventId
  THEN [threw |-> FALSE, value |-> TRUE, events |-> {e \in evs : e.id # eventId}]
  ELSE [threw |-> FALSE, value |-> FALSE, events |-> evs]

\* ------------------------------------------------------------ notificationService
\* scheduleTaskReminder without the two comparisons with new Date()
ReminderTriggers_unguarded(deadline, now) ==
  <<deadline.ms - ThirtyMinutes, deadline.ms>>

\* the instants scheduleTaskReminder schedules a notification for
ReminderTriggers(deadline, now) ==
  (IF deadline.ms - ThirtyMinutes > now THEN <<deadline.ms - ThirtyMinutes>> ELSE <<>>)
  \o (IF deadline.ms > now THEN <<deadline.ms>> ELSE <<>>)

\* failAt = k: the k-th scheduleNotificationAsync call throws; 0: none does
scheduleTaskReminder(task, rems, nextN, now, granted, failAt) ==
  IF ~Truthy(task.deadline) \/ ~granted
  THEN [threw |-> FALSE, value |-> <<>>, reminders |-> rems, used |-> 0]
  ELSE LET trig == ReminderTriggers(task.deadline, now)
           done == IF failAt \in 1..Len(trig) THEN failAt - 1 ELSE Len(trig)
           made == {[id |-> nextN + k, trigger |-> trig[k]] : k \in 1..done}
       IN [threw |-> FALSE,
           value |-> IF done = Len(trig) THEN [k \in 1..done |-> nextN + k] ELSE <<>>,
           reminders |-> rems \cup made,
           used |-> done]

\* cancelled: the ids whose cancelScheduledNotificationAsync succeeded
cancelTaskReminders(notificationIds, rems, cancelled) ==
  [threw |-> FALSE,
   reminders |-> {r \in rems : r.id \notin (Range(notificationIds) \cap cancelled)}]

\* ------------------------------------------------------------ callers
\* CreateTaskScreen.handleSubmit, create branch: the task handed to addTask
NewTask(id, deadline, now) ==
  [id |-> id, status |-> "todo", deadline |-> deadline,
   calendarEventId |-> NoRef, notificationIds |-> <<>>,
   createdAt |-> NewDate(now, 0), updatedAt |-> NewDate(now, 0),
   startTime |-> Undefined, completedAt |-> Undefined,
   recurrence |-> Undefined, timeTracking |-> Undefined, comments |-> <<>>]

\* the deadline values a form can hand over for a stored task: the stored
\* object itself, a Date object the picker allocated, or a cleared deadline
DeadlineInputs(stored) ==
  {stored, Undefined}
  \cup {NewDate(t, FreshObj(stored)) :
          t \in DeadlineChoices \cup (IF Truthy(stored) THEN {stored.ms} ELSE {})}

\* handleSubmit, edit branch, and TaskDetailScreen.handleUpdateStatus
EditedTask(task, deadline, status, now) ==
  [task EXCEPT !.deadline = deadline, !.status = status, !.updatedAt = NewDate(now, 0)]

\* the edits the screens make: the form changes the deadline, the detail
\* screen sets another status
Edits(task) ==
  {[deadline |-> d, status |-> task.status] : d \in DeadlineInputs(task.deadline)}
  \cup {[deadline |-> task.deadline, status |-> st] : st \in StatusChoices \ {task.status}}

\* the outcomes the platform may produce for a call that can fail
Outcomes == IF faults < MaxFaults THEN BOOLEAN ELSE {TRUE}

OutcomesAfter(failed) == IF failed \/ faults + 1 >= MaxFaults THEN {TRUE} ELSE BOOLEAN

Count(failed) == IF failed THEN 1 ELSE 0

\* ------------------------------------------------------------ mutations
\* A call of a mutation: its argument (task, id), the stored task it looked
\* up (old), the awaits ahead of it (steps, pc), and what it has got back.
\* before and write are filled in for the step in which it returns: the
\* collection it dispatched on and what the save effect did.  via names the
\* timer function when one of them made the call.
NewOp(kind, id, task, old, steps) ==
  [kind |-> kind, id |-> id, task |-> task, old |-> old, steps |-> steps, pc |-> 1,
   created |-> NoRef, scheduled |-> <<>>, scheduledAt |-> 0,
   raised |-> FALSE, write |-> "none", before |-> <<>>, via |-> kind]

addTaskSteps(task) ==
  IF Truthy(task.deadline) THEN <<"addTaskToCalendar", "scheduleTaskReminder">> ELSE <<>>

updateTaskSteps(task, oldTask) ==
  IF IsTask(oldTask) /\ StrictNotEqual(task.deadline, oldTask.deadline)
  THEN (IF Len(oldTask.notificationIds) > 0 THEN <<"cancelTaskReminders">> ELSE <<>>)
       \o (IF Truthy(task.deadline) THEN <<"scheduleTaskReminder">> ELSE <<>>)
       \o (IF Truthy(task.deadline)
           THEN (IF oldTask.calendarEventId # NoRef
                 THEN <<"updateTaskInCalendar">> ELSE <<"addTaskToCalendar">>)
           ELSE IF oldTask.calendarEventId # NoRef
                THEN <<"removeTaskFromCalendar">> ELSE <<>>)
  ELSE <<>>

deleteTaskSteps(taskToDelete) ==
  IF IsTask(taskToDelete)
  THEN (IF Len(taskToDelete.notificationIds) > 0 THEN <<"cancelTaskReminders">> ELSE <<>>)
       \o (IF taskToDelete.calendarEventId # NoRef
           THEN <<"removeTaskFromCalendar">> ELSE <<>>)
  ELSE <<>>

\* what the mutation does with the value an adapter call returned
storeEventId(task, eventId) ==
  IF eventId # NoRef THEN [task EXCEPT !.calendarEventId = eventId] ELSE task

storeNotificationIds(task, notificationIds) ==
  IF Len(notificationIds) > 0 THEN [task EXCEPT !.notificationIds = notificationIds] ELSE task

keepEventId(task, oldTask) == [task EXCEPT !.calendarEventId = oldTask.calendarEventId]

\* updateTask without the line that clears the reference
clearEventId_omitted(task) == task

clearEventId(task) == [task EXCEPT !.calendarEventId = NoRef]

dispatched(op) ==
  CASE op.kind = "add" -> [type |-> "ADD_TASK", payload |-> op.task]
    [] op.kind = "update" -> [type |-> "UPDATE_TASK", payload |-> op.task]
    [] op.kind = "delete" -> [type |-> "DELETE_TASK", payload |-> op.id]

\* The save effect, which runs after every render in which tasks changed.
\* Nothing awaits the write and only loadTasks reads the file, so the write
\* is taken to settle with the step that triggers it.  The file afterwards:
saveTasks(file, ts, writeOk) ==
  IF Len(ts) > 0 /\ writeOk THEN JSONstringify(ts) ELSE file

\* what became of the write: not issued, settled, or failed and logged
saveOutcome(ts, writeOk) ==
  IF Len(ts) = 0 THEN "none" ELSE IF writeOk THEN "written" ELSE "failed"

RemoveAt(s, i) == [k \in 1..(Len(s) - (IF i \in 1..Len(s) THEN 1 ELSE 0)) |->
                     IF i \in 1..Len(s) /\ k >= i THEN s[k + 1] ELSE s[k]]

\* the mutation dispatches and returns; i = 0 when it never suspended
Return(i, op, failed) ==
  LET newTasks == taskReducer(tasks, dispatched(op)) IN
  \E writeOk \in (IF failed THEN OutcomesAfter(failed) ELSE Outcomes) :
    /\ Len(newTasks) = 0 => writeOk
    /\ tasks' = newTasks
    /\ disk' = saveTasks(disk, newTasks, writeOk)
    /\ ops' = RemoveAt(ops, i)
    /\ last' = [op EXCEPT !.write = saveOutcome(newTasks, writeOk), !.before = tasks]
    /\ faults' = faults + Count(failed) + Count(~writeOk)

\* the catch block of the mutation: log and rethrow, nothing dispatched
Rethrow(i, op, failed) ==
  /\ ops' = RemoveAt(ops, i)
  /\ last' = [op EXCEPT !.raised = TRUE, !.before = tasks]
  /\ faults' = faults + Count(failed)
  /\ UNCHANGED <<tasks, disk>>

\* a mutation that dispatches while its last service call is still ahead
Resume_early(i, op, threw, failed) ==
  IF threw THEN Rethrow(i, op, failed)
  ELSE IF op.pc >= Len(op.steps) THEN Return(i, op, failed)
  ELSE /\ ops' = [ops EXCEPT ![i] = op]
       /\ last' = NoOp
       /\ faults' = faults + Count(failed)
       /\ UNCHANGED <<tasks, disk>>

\* failed: the service call that settled was one that fails
Resume(i, op, threw, failed) ==
  IF threw THEN Rethrow(i, op, failed)
  ELSE IF op.pc > Len(op.steps) THEN Return(i, op, failed)
  ELSE /\ ops' = [ops EXCEPT ![i] = op]
       /\ last' = NoOp
       /\ faults' = faults + Count(failed)
       /\ UNCHANGED <<tasks, disk>>

Start(op) ==
  IF op.steps = <<>> THEN Return(0, op, FALSE)
  ELSE /\ ops' = Append(ops, op)
       /\ last' = NoOp
       /\ UNCHANGED <<tasks, disk, faults>>

AtStep(i, name) ==
  /\ i \in 1..Len(ops)
  /\ ops[i].pc <= Len(ops[i].steps)
  /\ ops[i].steps[ops[i].pc] = name

\* id: what Date.now() returned in handleSubmit
AddTask(id, deadline) ==
  /\ UNCHANGED assistantVars
  /\ calls < MaxCalls
  /\ calls' = calls + 1
  /\ nextTaskId' = nextTaskId + 1
  /\ LET task == NewTask(id, deadline, clock)
     IN Start(NewOp("add", task.id, task, Undefined, addTaskSteps(task)))
  /\ UNCHANGED <<loadPc, loaded, events, reminders, nextEvent, nextNotif, clock>>

UpdateTask(k, deadline, status) ==
  /\ UNCHANGED assistantVars
  /\ k \in 1..Len(tasks)
  /\ calls < MaxCalls
  /\ calls' = calls + 1
  /\ LET task == EditedTask(tasks[k], deadline, status, clock)
         oldTask == getTaskById(tasks, task.id)
     IN Start(NewOp("update", task.id, task, oldTask, updateTaskSteps(task, oldTask)))
  /\ UNCHANGED <<loadPc, loaded, events, reminders, nextTaskId, nextEvent, nextNotif, clock>>

DeleteTask(id) ==
  /\ UNCHANGED assistantVars
  /\ calls < MaxCalls
  /\ calls' = calls + 1
  /\ LET taskToDelete == getTaskById(tasks, id)
     IN Start(NewOp("delete", id, Undefined, taskToDelete, deleteTaskSteps(taskToDelete)))
  /\ UNCHANGED <<loadPc, loaded, events, reminders, nextTaskId, nextEvent, nextNotif, clock>>

\* ---- an awaited service call settles and the mutation runs on to its next await
AddTaskToCalendarDone(i) ==
  /\ UNCHANGED assistantVars
  /\ AtStep(i, "addTaskToCalendar")
  /\ \E ok \in Outcomes, setupFails \in BOOLEAN :
       LET op == ops[i]
           r == addTaskToCalendar(op.task, events, nextEvent,
                                  ok \/ ~setupFails, ok \/ setupFails)
       IN /\ events' = r.events
          /\ nextEvent' = nextEvent + r.used
          /\ Resume(i, [op EXCEPT !.task = storeEventId(@, r.value),
                                  !.created = r.value, !.pc = @ + 1], r.threw, ~ok)
  /\ UNCHANGED <<loadPc, loaded, reminders, nextTaskId, nextNotif, clock, calls>>

UpdateTaskInCalendarDone(i) ==
  /\ UNCHANGED assistantVars
  /\ AtStep(i, "updateTaskInCalendar")
  /\ \E ok \in Outcomes, setupFails \in BOOLEAN :
       LET op == ops[i]
           r == updateTaskInCalendar(op.task, op.old.calendarEventId, events,
                                     ok \/ ~setupFails, ok \/ setupFails)
       IN /\ events' = r.events
          /\ Resume(i, [op EXCEPT !.task = keepEventId(@, op.old), !.pc = @ + 1], r.threw, ~ok)
  /\ UNCHANGED <<loadPc, loaded, reminders, nextTaskId, nextEvent, nextNotif,
                 clock, calls>>

RemoveTaskFromCalendarDone(i) ==
  /\ UNCHANGED assistantVars
  /\ AtStep(i, "removeTaskFromCalendar")
  /\ \E ok \in Outcomes, setupFails \in BOOLEAN :
       LET op == ops[i]
           r == removeTaskFromCalendar(op.old.calendarEventId, events,
                                       ok \/ ~setupFails, ok \/ setupFails)
       IN /\ events' = r.events
          /\ Resume(i, [op EXCEPT !.task = IF op.kind = "update" THEN clearEventId(@) ELSE @,
                                  !.pc = @ + 1], r.threw, ~ok)
  /\ UNCHANGED <<loadPc, loaded, reminders, nextTaskId, nextEvent, nextNotif,
                 clock, calls>>

ScheduleTaskReminderDone(i) ==
  /\ UNCHANGED assistantVars
  /\ AtStep(i, "scheduleTaskReminder")
  /\ \E ok \in Outcomes, granted \in BOOLEAN, failAt \in 1..2 :
       LET op == ops[i]
           r == scheduleTaskReminder(op.task, reminders, nextNotif, clock,
                                     ok \/ granted, IF ok THEN 0 ELSE failAt)
       IN /\ reminders' = r.reminders
          /\ nextNotif' = nextNotif + r.used
          /\ Resume(i, [op EXCEPT !.task = storeNotificationIds(@, r.value),
                                  !.scheduled = r.value, !.scheduledAt = clock,
                                  !.pc = @ + 1], r.threw, ~ok)
  /\ UNCHANGED <<loadPc, loaded, events, nextTaskId, nextEvent, clock, calls>>

CancelTaskRemindersDone(i) ==
  /\ UNCHANGED assistantVars
  /\ AtStep(i, "cancelTaskReminders")
  /\ \E ok \in Outcomes, cancelled \in SUBSET Range(ops[i].old.notificationIds) :
       LET op == ops[i]
           r == cancelTaskReminders(op.old.notificationIds, reminders,
                    IF ok THEN Range(op.old.notificationIds) ELSE cancelled)
       IN /\ ~ok => cancelled # Range(op.old.notificationIds)
          /\ reminders' = r.reminders
          /\ Resume(i, [op EXCEPT !.pc = @ + 1], r.threw, ~ok)
  /\ UNCHANGED <<loadPc, loaded, events, nextTaskId, nextEvent, nextNotif, clock, calls>>

\* ---- persistence
NoText == <<[type |-> "nothing"]>>

\* loadTasks, started by the mount effect: getInfoAsync and readAsStringAsync
\* settle.  A failure is caught and logged and nothing is dispatched.
LoadRead(readOk) ==
  /\ UNCHANGED assistantVars
  /\ loadPc = "reading"
  /\ IF disk # NoFile /\ readOk
     THEN loadPc' = "read" /\ loaded' = disk
     ELSE loadPc' = "done" /\ loaded' = NoText
  /\ faults' = faults + Count(~readOk)
  /\ last' = NoOp
  /\ UNCHANGED <<tasks, disk, events, reminders, nextTaskId, nextEvent, nextNotif,
                 clock, calls, ops>>

\* loadTasks resumes: JSON.parse, the date conversion and SET_TASKS
LoadTasks ==
  /\ UNCHANGED assistantVars
  /\ loadPc = "read"
  /\ loadPc' = "done"
  /\ loaded' = NoText
  /\ LET newTasks == taskReducer(tasks, [type |-> "SET_TASKS",
                                         payload |-> formattedTasks(loaded)])
     IN \E writeOk \in Outcomes :
          /\ Len(newTasks) = 0 => writeOk
          /\ tasks' = newTasks
          /\ disk' = saveTasks(disk, newTasks, writeOk)
          /\ last' = [kind |-> "load", write |-> saveOutcome(newTasks, writeOk),
                       before |-> tasks]
          /\ faults' = faults + Count(~writeOk)
  /\ UNCHANGED <<events, reminders, nextTaskId, nextEvent, nextNotif, clock, calls, ops>>

\* What an earlier run of the application left behind: nothing, or a task
\* added with a deadline whose calendar event and reminders still exist.
SavedTask ==
  [NewTask(1, NewDate(3600, 0), 0) EXCEPT !.calendarEventId = 1, !.notificationIds = <<1, 2>>]

Installed ==
  {[disk |-> NoFile, events |-> {}, reminders |-> {}, ids |-> 0],
   [disk |-> JSONstringify(<<SavedTask>>),
    events |-> {CalendarEvent(1, SavedTask.deadline)},
    reminders |-> {[id |-> 1, trigger |-> 1800], [id |-> 2, trigger |-> 3600]},
    ids |-> 1]}

Init ==
  /\ AssistantIdle
  /\ \E inst \in Installed :
       /\ disk = inst.disk
       /\ events = inst.events
       /\ reminders = inst.reminders
       /\ nextTaskId = inst.ids
       /\ nextEvent = inst.ids
       /\ nextNotif = 2 * inst.ids
  /\ tasks = <<>>
  /\ loadPc = "reading"
  /\ loaded = NoText
  /\ clock = 0
  /\ calls = 0
  /\ faults = 0
  /\ ops = <<>>
  /\ last = NoOp

\* Here every creation reads a later Date.now() than the one before it, so
\* the ids are 1, 2, ...; StoreSpec below reads the id off the clock.
Next ==
  \/ \E d \in DeadlineInputs(Undefined) : AddTask(nextTaskId + 1, d)
  \/ \E k \in 1..Len(tasks) : \E e \in Edits(tasks[k]) :
       UpdateTask(k, e.deadline, e.status)
  \/ \E id \in 1..(nextTaskId + 1) : DeleteTask(id)
  \/ \E i \in 1..Len(ops) : AddTaskToCalendarDone(i)
  \/ \E i \in 1..Len(ops) : UpdateTaskInCalendarDone(i)
  \/ \E i \in 1..Len(ops) : RemoveTaskFromCalendarDone(i)
  \/ \E i \in 1..Len(ops) : ScheduleTaskReminderDone(i)
  \/ \E i \in 1..Len(ops) : CancelTaskRemindersDone(i)
  \/ \E ok \in Outcomes : LoadRead(ok)
  \/ LoadTasks

Spec == Init /\ [][Next]_vars

\* ------------------------------------------------------------ round trip
\* A collection is written by the save effect and read back by loadTasks of
\* the next launch.  The collection holds one task whose optional date
\* fields are each present or absent (types.ts: Task, TimeTrackingSession,
\* TaskRecurrence, Comment).
OptionalDate == {Undefined, NewDate(ThirtyMinutes, 0)}

Recurrences ==
  {Undefined} \cup {[type |-> "daily", endDate |-> d] : d \in OptionalDate}

TimeTrackings ==
  {Undefined, [type |-> "tracking", sessions |-> <<>>]}
  \cup {[type |-> "tracking",
         sessions |-> <<[startTime |-> NewDate(0, 0), endTime |-> d]>>] : d \in OptionalDate}

CommentLists == {<<>>, <<[id |-> 1, createdAt |-> NewDate(0, 0)]>>}

PopulatedTasks ==
  {[NewTask(1, dl, 0) EXCEPT !.startTime = st, !.completedAt = ca, !.recurrence = rec,
                             !.timeTracking = tt, !.comments = cm] :
     dl \in OptionalDate, st \in OptionalDate, ca \in OptionalDate,
     rec \in Recurrences, tt \in TimeTrackings, cm \in CommentLists}

RoundTripInit ==
  /\ AssistantIdle
  /\ tasks \in {<<t>> : t \in PopulatedTasks}
  /\ disk = NoFile
  /\ loadPc = "saving"
  /\ loaded = NoText
  /\ events = {} /\ reminders = {}
  /\ nextTaskId = 1 /\ nextEvent = 0 /\ nextNotif = 0
  /\ clock = 0 /\ calls = 0 /\ faults = 0
  /\ ops = <<>>
  /\ last = NoOp

\* the save effect writes the collection
SaveEffect ==
  /\ UNCHANGED assistantVars
  /\ loadPc = "saving"
  /\ disk' = saveTasks(disk, tasks, TRUE)
  /\ loadPc' = "reading"
  /\ UNCHANGED <<tasks, loaded, events, reminders, nextTaskId, nextEvent, nextNotif,
                 clock, calls, faults, ops, last>>

\* the next launch: loadTasks reads the file, converts and dispatches SET_TASKS
Reload ==
  /\ UNCHANGED assistantVars
  /\ loadPc = "reading"
  /\ tasks' = taskReducer(<<>>, [type |-> "SET_TASKS", payload |-> formattedTasks(disk)])
  /\ last' = [kind |-> "reload", before |-> tasks]
  /\ loadPc' = "done"
  /\ UNCHANGED <<disk, loaded, events, reminders, nextTaskId, nextEvent, nextNotif,
                 clock, calls, faults, ops>>

RoundTripNext == SaveEffect \/ Reload

RoundTripSpec == RoundTripInit /\ [][RoundTripNext]_vars

\* ------------------------------------------------------------ overlapping calls
\* The store after the load of a collection with one task, its calendar event
\* and its reminders; no service call and no write fails from here on.
LoadedInit ==
  /\ AssistantIdle
  /\ tasks = <<SavedTask>>
  /\ disk = JSONstringify(<<SavedTask>>)
  /\ loadPc = "done"
  /\ loaded = NoText
  /\ events = {CalendarEvent(1, SavedTask.deadline)}
  /\ reminders = {[id |-> 1, trigger |-> 1800], [id |-> 2, trigger |-> 3600]}
  /\ nextTaskId = 1 /\ nextEvent = 1 /\ nextNotif = 2
  /\ clock = 0 /\ calls = 0
  /\ faults = MaxFaults
  /\ ops = <<>>
  /\ last = NoOp

LoadedNext ==
  \/ \E d \in DeadlineInputs(Undefined) : AddTask(nextTaskId + 1, d)
  \/ \E k \in 1..Len(tasks) : \E e \in Edits(tasks[k]) :
       UpdateTask(k, e.deadline, e.status)
  \/ \E id \in 1..(nextTaskId + 1) : DeleteTask(id)
  \/ \E i \in 1..Len(ops) : AddTaskToCalendarDone(i)
  \/ \E i \in 1..Len(ops) : UpdateTaskInCalendarDone(i)
  \/ \E i \in 1..Len(ops) : RemoveTaskFromCalendarDone(i)
  \/ \E i \in 1..Len(ops) : ScheduleTaskReminderDone(i)
  \/ \E i \in 1..Len(ops) : CancelTaskRemindersDone(i)

LoadedSpec == LoadedInit /\ [][LoadedNext]_vars

\* ------------------------------------------------------------ timers
\* startTaskTimer and stopTaskTimer, with a clock that advances.  No deadline
\* is edited, so no mutation suspends on a service call.
MaxSessions == 2        \* sessions started per task
MaxTicks == 2           \* advances of the clock in one behaviour

SecondsPerMinute == 60
LongTick == 125
TickSeconds == {90, LongTick}

\* the division of stopTaskTimer with the rounding left out
RoundedMinutes_truncated(seconds) == seconds \div SecondsPerMinute

\* Math.round(ms / 60000) on a difference of instants counted in seconds;
\* Math.round rounds a half upwards
RoundedMinutes(seconds) == (2 * seconds + SecondsPerMinute) \div (2 * SecondsPerMinute)

NoTimeTracking == [type |-> "tracking", totalTimeSpent |-> 0, sessions |-> <<>>]

newSession(now) ==
  [startTime |-> NewDate(now, 0), endTime |-> Undefined, duration |-> Undefined]

\* an entity whose updatedAt is set as well
startedTask_touched(task, now) ==
  LET timeTracking == IF Truthy(task.timeTracking) THEN task.timeTracking ELSE NoTimeTracking
  IN [task EXCEPT !.updatedAt = NewDate(now, 0),
                  !.timeTracking =
                    [timeTracking EXCEPT !.sessions = Append(@, newSession(now))]]

\* the entity startTaskTimer hands to updateTask
startedTask(task, now) ==
  LET timeTracking == IF Truthy(task.timeTracking) THEN task.timeTracking ELSE NoTimeTracking
  IN [task EXCEPT !.timeTracking =
        [timeTracking EXCEPT !.sessions = Append(@, newSession(now))]]

\* early returns that let a closed last session through
canStop_closedToo(task) ==
  /\ IsTask(task)
  /\ Truthy(task.timeTracking)
  /\ Len(task.timeTracking.sessions) > 0

\* stopTaskTimer goes on past its two early returns
canStop(task) ==
  /\ IsTask(task)
  /\ Truthy(task.timeTracking)
  /\ Len(task.timeTracking.sessions) > 0
  /\ ~Truthy(task.timeTracking.sessions[Len(task.timeTracking.sessions)].endTime)

\* an entity whose totalTimeSpent is the duration of the session just closed
stoppedTask_totalReplaced(task, now) ==
  LET sessions == task.timeTracking.sessions
      lastSession == sessions[Len(sessions)]
      duration == RoundedMinutes(now - lastSession.startTime.ms)
  IN [task EXCEPT !.timeTracking =
        [type |-> "tracking",
         totalTimeSpent |-> duration,
         sessions |-> [sessions EXCEPT ![Len(sessions)] =
                         [lastSession EXCEPT !.endTime = NewDate(now, 0),
                                             !.duration = duration]]]]

\* the entity stopTaskTimer hands to updateTask
stoppedTask(task, now) ==
  LET sessions == task.timeTracking.sessions
      lastSession == sessions[Len(sessions)]
      duration == RoundedMinutes(now - lastSession.startTime.ms)
  IN [task EXCEPT !.timeTracking =
        [type |-> "tracking",
         totalTimeSpent |-> task.timeTracking.totalTimeSpent + duration,
         sessions |-> [sessions EXCEPT ![Len(sessions)] =
                         [lastSession EXCEPT !.endTime = NewDate(now, 0),
                                             !.duration = duration]]]]

\* updateTask as the timers call it: the deadline is the stored object
timerUpdate(updatedTask, via) ==
  LET oldTask == getTaskById(tasks, updatedTask.id)
  IN Start([NewOp("update", updatedTask.id, updatedTask, oldTask,
                  updateTaskSteps(updatedTask, oldTask)) EXCEPT !.via = via])

\* the early return of a timer function: nothing is called, nothing dispatched
timerReturn(taskId, via) ==
  /\ last' = [kind |-> "noop", id |-> taskId, via |-> via, before |-> tasks]
  /\ UNCHANGED <<tasks, disk, ops, faults>>

StartTaskTimer(taskId) ==
  /\ UNCHANGED assistantVars
  /\ LET task == getTaskById(tasks, taskId)
     IN IF ~IsTask(task) THEN timerReturn(taskId, "startTaskTimer")
        ELSE /\ Len(startedTask(task, clock).timeTracking.sessions) <= MaxSessions
             /\ timerUpdate(startedTask(task, clock), "startTaskTimer")
  /\ UNCHANGED <<loadPc, loaded, events, reminders, nextTaskId, nextEvent, nextNotif,
                 clock, calls>>

StopTaskTimer(taskId) ==
  /\ UNCHANGED assistantVars
  /\ LET task == getTaskById(tasks, taskId)
     IN IF ~canStop(task) THEN timerReturn(taskId, "stopTaskTimer")
        ELSE timerUpdate(stoppedTask(task, clock), "stopTaskTimer")
  /\ UNCHANGED <<loadPc, loaded, events, reminders, nextTaskId, nextEvent, nextNotif,
                 clock, calls>>

\* time passes
Tick(seconds) ==
  /\ UNCHANGED assistantVars
  /\ clock + seconds <= MaxTicks * LongTick
  /\ clock' = clock + seconds
  /\ last' = NoOp
  /\ UNCHANGED <<tasks, disk, loadPc, loaded, events, reminders, nextTaskId, nextEvent,
                 nextNotif, calls, faults, ops>>

\* the task the timers run on: it has a deadline, a calendar event and reminders
TrackedTask == SavedTask

\* a task without deadline that no call addresses
Bystander == NewTask(0, Undefined, 0)

\* the ids the timer functions are called with: the tracked task and an id
\* that no task has
TimerIds == {TrackedTask.id, nextTaskId + 1}

\* two tasks are in the collection and in the file; no write fails here
TimerInit ==
  /\ AssistantIdle
  /\ tasks = <<TrackedTask, Bystander>>
  /\ disk = JSONstringify(<<TrackedTask, Bystander>>)
  /\ loadPc = "done"
  /\ loaded = NoText
  /\ events = {CalendarEvent(1, TrackedTask.deadline)}
  /\ reminders = {[id |-> 1, trigger |-> 1800], [id |-> 2, trigger |-> 3600]}
  /\ nextTaskId = 1 /\ nextEvent = 1 /\ nextNotif = 2
  /\ clock = 0 /\ calls = 0
  /\ faults = MaxFaults
  /\ ops = <<>>
  /\ last = NoOp

TimerNext ==
  \/ \E st \in StatusChoices \ {tasks[1].status} : UpdateTask(1, tasks[1].deadline, st)
  \/ \E id \in TimerIds : StartTaskTimer(id)
  \/ \E id \in TimerIds : StopTaskTimer(id)
  \/ \E s \in TickSeconds : Tick(s)

TimerSpec == TimerInit /\ [][TimerNext]_vars

\* ------------------------------------------------------------ creation
\* The whole store without deadlines: tasks are created, edited, timed and
\* deleted while the clock advances.  The id of a task is Date.now() of its
\* creation: the clock.
StoreInit ==
  /\ AssistantIdle
  /\ tasks = <<>>
  /\ disk = NoFile
  /\ loadPc = "done"
  /\ loaded = NoText
  /\ events = {} /\ reminders = {}
  /\ nextTaskId = 0 /\ nextEvent = 0 /\ nextNotif = 0
  /\ clock = 0 /\ calls = 0 /\ faults = 0
  /\ ops = <<>>
  /\ last = NoOp

StoreNext ==
  \/ AddTask(clock, Undefined)
  \/ \E k \in 1..Len(tasks) : \E st \in StatusChoices \ {tasks[k].status} :
       UpdateTask(k, tasks[k].deadline, st)
  \/ \E k \in 1..Len(tasks) : DeleteTask(tasks[k].id)
  \/ \E k \in 1..Len(tasks) : StartTaskTimer(tasks[k].id)
  \/ \E k \in 1..Len(tasks) : StopTaskTimer(tasks[k].id)
  \/ \E s \in TickSeconds : Tick(s)

StoreSpec == StoreInit /\ [][StoreNext]_vars

\* ------------------------------------------------------------ AI gateway (aiService)
\* A JavaScript string is a sequence of segments: a code fence, a JSON text (with
\* the value it denotes) or prose. An input text (query, title, description) is
\* prose carrying the keywords its lower-cased form includes.
Keywords == {"analyze", "schedule", "break down", "decompose"}

String(parts) == [type |-> "string", parts |-> parts]

Prose(name, words) == String(<<[seg |-> "prose", name |-> name, words |-> words]>>)

Fence == String(<<[seg |-> "fence"]>>)

EmptyString == String(<<>>)

\* string concatenation, as a template literal does it
Concat(a, b) == String(a.parts \o b.parts)

\* String.prototype.includes on the lower-cased string
includes(string, word) ==
  \E k \in 1..Len(string.parts) :
    string.parts[k].seg = "prose" /\ word \in string.parts[k].words

\* JSON values
JSONArray(items) == [type |-> "array", items |-> items]

JSONObject == [type |-> "object"]

\* JSON.stringify of a value: the one JSON text denoting it
JSONtext(value) == String(<<[seg |-> "json", value |-> value]>>)

ParseError == [type |-> "SyntaxError"]

\* JSON.parse: the value of a string that is exactly one JSON text, an error otherwise
JSONparse(string) ==
  IF Len(string.parts) = 1 /\ string.parts[1].seg = "json"
    THEN string.parts[1].value
    ELSE ParseError

\* response.replace(/```json|```/g, '').trim()
stripFences(string) == String(SelectSeq(string.parts, LAMBDA part : part.seg # "fence"))

\* the texts of getFallbackResponse, with the keywords each of them includes
AnalysisText == Prose("Based on your task patterns", {"break down"})

ScheduleText == Prose("For optimal productivity", {"schedule"})

HelpText == Prose("I'm here to help", {"schedule"})

FallbackSubtasks ==
  <<"Research and gather information", "Create initial draft or plan",
    "Implement core components", "Review and gather feedback",
    "Make refinements based on feedback", "Finalize and submit">>

Message(role, content) == [role |-> role, content |-> content]

\* messages.find(m => m.role === "user")?.content || ""
userMessage(messages) ==
  LET found == {k \in 1..Len(messages) : messages[k].role = "user"}
  IN  IF found = {} THEN EmptyString
      ELSE messages[CHOOSE k \in found : \A j \in found : k <= j].content

\* the answer chosen from the first message of the list, whatever its role
getFallbackResponse_firstMessage(messages) ==
  LET text == IF messages = <<>> THEN EmptyString ELSE messages[1].content
  IN  IF includes(text, "analyze") THEN AnalysisText
      ELSE IF includes(text, "schedule") THEN ScheduleText
      ELSE IF includes(text, "break down") \/ includes(text, "decompose")
        THEN JSONtext(JSONArray(FallbackSubtasks))
      ELSE HelpText

getFallbackResponse(messages) ==
  LET text == userMessage(messages)
  IN  IF includes(text, "analyze") THEN AnalysisText
      ELSE IF includes(text, "schedule") THEN ScheduleText
      ELSE IF includes(text, "break down") \/ includes(text, "decompose")
        THEN JSONtext(JSONArray(FallbackSubtasks))
      ELSE HelpText

\* what fetch can do: reject, or resolve to a response with a status and a body
Rejected == [kind |-> "rejected"]

Response(status, body) == [kind |-> "response", status |-> status, body |-> body]

\* a body response.json() rejects
InvalidBody == [type |-> "invalid"]

Body(choices) == [type |-> "object", choices |-> choices]

Choice(message) == [type |-> "object", message |-> message]

Completion(content) == [type |-> "object", content |-> content]

TypeError == [type |-> "TypeError"]

\* data.choices[0].message.content: a property read of undefined throws
firstContent(data) ==
  IF ~Truthy(data.choices) THEN TypeError
  ELSE IF data.choices.items = <<>> THEN TypeError
  ELSE IF ~Truthy(data.choices.items[1].message) THEN TypeError
  ELSE data.choices.items[1].message.content

\* sendRequest: the value returned and whether fetch was called
sendRequest(messages, response) ==
  IF ~aiEnv.enabled \/ aiEnv.apiKey = ""
    THEN [value |-> getFallbackResponse(messages), fetched |-> FALSE]
  ELSE IF response.kind = "rejected"
    THEN [value |-> getFallbackResponse(messages), fetched |-> TRUE]
  ELSE IF response.status = 401
    THEN [value |-> getFallbackResponse(messages), fetched |-> TRUE]
  ELSE IF response.status \notin 200..299
    THEN [value |-> getFallbackResponse(messages), fetched |-> TRUE]
  ELSE IF response.body.type = "invalid"
    THEN [value |-> getFallbackResponse(messages), fetched |-> TRUE]
  ELSE IF firstContent(response.body).type = "TypeError"
    THEN [value |-> getFallbackResponse(messages), fetched |-> TRUE]
  ELSE [value |-> firstContent(response.body), fetched |-> TRUE]

\* JSON.stringify of the task summaries: a text that includes every title
summaries(ts) ==
  IF ts = <<>> THEN EmptyString
  ELSE LET RECURSIVE join(_)
           join(k) == IF k > Len(ts) THEN EmptyString ELSE Concat(ts[k].title, join(k + 1))
       IN  join(1)

\* recentTasks.slice(0, 5)
slice(ts, n) == SubSeq(ts, 1, IF Len(ts) < n THEN Len(ts) ELSE n)

analyzeTaskPatternsMessages(ts) ==
  <<Message("system", Prose("You are a productivity assistant that analyzes", {"analyze"})),
    Message("user", Concat(Prose("Analyze these tasks", {"analyze"}), summaries(ts)))>>

decomposeTaskMessages(taskTitle, taskDescription) ==
  <<Message("system", Prose("You are a productivity assistant that helps break down",
                            {"break down"})),
    Message("user", Concat(Concat(Prose("Break down this task", {"break down"}), taskTitle),
                           taskDescription))>>

getAssistantResponseMessages(userQuery, recentTasks) ==
  <<Message("system", Concat(Prose("You are a helpful productivity assistant", {}),
                             summaries(slice(recentTasks, 5)))),
    Message("user", userQuery)>>

\* the subtasks decomposeTask returns when the response cannot be parsed
DefaultSubtasks ==
  <<"Research and gather information", "Create initial draft/plan",
    "Implement core components", "Review and refine", "Finalize and submit">>

\* the part of decomposeTask after the request: strip the fences, parse, keep an array
parseSubtasks(response) ==
  IF response.type # "string" THEN JSONArray(DefaultSubtasks)
  ELSE LET subtasks == JSONparse(stripFences(response))
       IN  IF subtasks.type = "SyntaxError" THEN JSONArray(DefaultSubtasks)
           ELSE IF subtasks.type = "array" THEN subtasks
           ELSE JSONArray(<<>>)

\* the three entry points: the reply records the call, fetch's part, the text
\* sendRequest returned and the result of the call
Reply(fn, messages, ts, response, result) ==
  [fn |-> fn, user |-> userMessage(messages), tasks |-> ts, response |-> response,
   fetched |-> sendRequest(messages, response).fetched,
   text |-> sendRequest(messages, response).value, result |-> result]

analyzeTaskPatterns(ts, response) ==
  LET messages == analyzeTaskPatternsMessages(ts)
  IN  Reply("analyzeTaskPatterns", messages, ts, response,
            sendRequest(messages, response).value)

decomposeTask(taskTitle, taskDescription, response) ==
  LET messages == decomposeTaskMessages(taskTitle, taskDescription)
  IN  Reply("decomposeTask", messages, <<>>, response,
            parseSubtasks(sendRequest(messages, response).value))

getAssistantResponse(userQuery, recentTasks, response) ==
  LET messages == getAssistantResponseMessages(userQuery, recentTasks)
  IN  Reply("getAssistantResponse", messages, recentTasks, response,
            sendRequest(messages, response).value)

\* ------------------------------------------------------------ gateway calls
\* the fields of a Task the assistant reads
AssistantTask(id, title, priority, status, deadline) ==
  [id |-> id, title |-> title, priority |-> priority, status |-> status,
   deadline |-> deadline]

Envs == {[enabled |-> e, apiKey |-> k] : e \in BOOLEAN, k \in {"", ShippedEnv.apiKey}}

Queries ==
  {Prose("What should I do next", {}), Prose("Analyze my week", {"analyze"}),
   Prose("Plan my schedule", {"schedule"})}

Titles ==
  {Prose("Write report", {}), Prose("Analyze survey", {"analyze"}),
   Prose("Schedule meeting", {"schedule"})}

Descriptions == {EmptyString, Prose("for the board", {})}

TaskLists ==
  {<<>>,
   <<AssistantTask(1, Prose("Analyze survey", {"analyze"}), "high", "todo", Undefined)>>}

\* the contents a completion can carry
Contents ==
  {Prose("Here is my advice", {}),
   JSONtext(JSONArray(<<"Outline", "Write">>)),
   Concat(Concat(Fence, JSONtext(JSONArray(<<"Outline", "Write">>))), Fence),
   JSONtext(JSONObject),
   Undefined}

Bodies ==
  {InvalidBody, Body(Undefined), Body(JSONArray(<<>>)), Body(JSONArray(<<Choice(Undefined)>>))}
  \cup {Body(JSONArray(<<Choice(Completion(c))>>)) : c \in Contents}
  \cup {Body(JSONArray(<<Choice(Completion(Prose("Here is my advice", {}))),
                         Choice(Completion(Prose("Or else", {})))>>))}

NoFetch == [kind |-> "none"]

\* what the network does to the request of a call: nothing when the gateway is off
Responses ==
  IF ~aiEnv.enabled \/ aiEnv.apiKey = ""
    THEN {NoFetch}
    ELSE {Rejected, Response(401, InvalidBody), Response(500, InvalidBody)}
         \cup {Response(200, b) : b \in Bodies}

\* the last two calls are kept
Record(reply) ==
  /\ replies' = <<reply>> \o SubSeq(replies, 1, IF replies = <<>> THEN 0 ELSE 1)
  /\ UNCHANGED <<tasks, disk, loadPc, loaded, events, reminders, nextTaskId, nextEvent,
                 nextNotif, clock, calls, faults, ops, last, aiEnv, recommendations,
                 isAnalyzing, passes>>

AnalyzeTaskPatterns(ts, response) == Record(analyzeTaskPatterns(ts, response))

DecomposeTask(taskTitle, taskDescription, response) ==
  Record(decomposeTask(taskTitle, taskDescription, response))

GetAssistantResponse(userQuery, recentTasks, response) ==
  Record(getAssistantResponse(userQuery, recentTasks, response))

GatewayInit ==
  /\ aiEnv \in Envs
  /\ replies = <<>>
  /\ recommendations = <<>>
  /\ isAnalyzing = FALSE
  /\ passes = <<>>
  /\ tasks = <<>>
  /\ disk = NoFile
  /\ loadPc = "done"
  /\ loaded = NoText
  /\ events = {} /\ reminders = {}
  /\ nextTaskId = 0 /\ nextEvent = 0 /\ nextNotif = 0
  /\ clock = 0 /\ calls = 0 /\ faults = 0
  /\ ops = <<>>
  /\ last = NoOp

GatewayNext ==
  \/ \E ts \in TaskLists : \E r \in Responses : AnalyzeTaskPatterns(ts, r)
  \/ \E t \in Titles : \E d \in Descriptions : \E r \in Responses : DecomposeTask(t, d, r)
  \/ \E q \in Queries : \E ts \in TaskLists : \E r \in Responses :
       GetAssistantResponse(q, ts, r)

GatewaySpec == GatewayInit /\ [][GatewayNext]_vars

\* ------------------------------------------------------------ recommendations
\* tasks.length >= 3: the size from which a run asks the AI service
EnoughTasks == 3

\* 'overdue-' + Date.now() and the like
RecommendationId(prefix, now) == [prefix |-> prefix, now |-> now]

Recommendation(id, type, message, taskIds) ==
  [id |-> id, type |-> type, message |-> message, applied |-> FALSE, taskIds |-> taskIds]

\* tasks.map(t => t.id)
ids(ts) == [k \in 1..Len(ts) |-> ts[k].id]

\* the filter of the pass with the deadline test left out
overdueHighPriorityTasks_anyDeadline(ts, now) ==
  SelectSeq(ts, LAMBDA task : /\ task.status # "completed"
                              /\ task.priority = "high")

\* tasks.filter(status !== COMPLETED && deadline && deadline < new Date() && priority === HIGH)
overdueHighPriorityTasks(ts, now) ==
  SelectSeq(ts, LAMBDA task : /\ task.status # "completed"
                              /\ Truthy(task.deadline)
                              /\ task.deadline.ms < now
                              /\ task.priority = "high")

ClusterKeywords == <<"report", "email", "meeting", "design">>

\* findSimilarTaskClusters: for each keyword with two matches or more, its matches
findSimilarTaskClusters(ts) ==
  LET matches(keyword) == SelectSeq(ts, LAMBDA task : includes(task.title, keyword))
      RECURSIVE from(_)
      from(k) == IF k > Len(ClusterKeywords) THEN <<>>
                 ELSE (IF Len(matches(ClusterKeywords[k])) >= 2
                         THEN matches(ClusterKeywords[k]) ELSE <<>>) \o from(k + 1)
  IN  from(1)

\* the recommendations one run of analyzeTasksAndGenerateRecommendations
\* collects over the tasks it captured, the filter reading the clock at `now`
newRecommendations(ts, now) ==
  LET overdue == overdueHighPriorityTasks(ts, now)
      similarTasks == findSimilarTaskClusters(ts)
  IN  (IF Len(ts) >= EnoughTasks
         THEN <<Recommendation(RecommendationId("ai-insight", now), "pattern",
                                [text |-> "I've analyzed your tasks"], ids(ts))>>
         ELSE <<>>)
      \o (IF Len(overdue) > 0
            THEN <<Recommendation(RecommendationId("overdue", now), "prioritization",
                                  [text |-> "overdue high-priority tasks",
                                   count |-> Len(overdue)], ids(overdue))>>
            ELSE <<>>)
      \o (IF Len(similarTasks) > 2
            THEN <<Recommendation(RecommendationId("batch", now), "pattern",
                                  [text |-> "similar tasks that could be batched",
                                   count |-> Len(similarTasks)], ids(similarTasks))>>
            ELSE <<>>)
      \o <<Recommendation(RecommendationId("schedule", now), "scheduling",
                           [text |-> "an optimized schedule"], ids(ts))>>

\* the run that finished in the step just taken
PassOp(ts, now, added) == [kind |-> "pass", tasks |-> ts, now |-> now, added |-> added]

\* a run that puts its recommendations in place of the list
finishPass_replacing(ts) ==
  /\ recommendations' = newRecommendations(ts, clock)
  /\ isAnalyzing' = FALSE
  /\ last' = PassOp(ts, clock, newRecommendations(ts, clock))

\* the run from the AI call (or, without one, from its start) to its end
finishPass(ts) ==
  /\ recommendations' = recommendations \o newRecommendations(ts, clock)
  /\ isAnalyzing' = FALSE
  /\ last' = PassOp(ts, clock, newRecommendations(ts, clock))

\* the effect on [tasks]: the collection changed; a run starts unless it is
\* empty, and runs to its end at once unless it awaits the AI call
TasksChanged(ts) ==
  /\ calls < MaxCalls
  /\ calls' = calls + 1
  /\ tasks' = ts
  /\ IF Len(ts) = 0
       THEN /\ last' = NoOp
            /\ UNCHANGED <<recommendations, isAnalyzing, passes>>
     ELSE IF Len(ts) >= EnoughTasks
       THEN /\ isAnalyzing' = TRUE
            /\ passes' = Append(passes, ts)
            /\ last' = NoOp
            /\ UNCHANGED recommendations
     ELSE /\ finishPass(ts)
          /\ UNCHANGED passes
  /\ UNCHANGED <<disk, loadPc, loaded, events, reminders, nextTaskId, nextEvent, nextNotif,
                 clock, faults, ops, aiEnv, replies>>

\* aiService.analyzeTaskPatterns settled for the i-th suspended run
AnalysisDone(i) ==
  /\ i \in 1..Len(passes)
  /\ finishPass(passes[i])
  /\ passes' = RemoveAt(passes, i)
  /\ UNCHANGED <<tasks, disk, loadPc, loaded, events, reminders, nextTaskId, nextEvent,
                 nextNotif, clock, calls, faults, ops, aiEnv, replies>>

\* applyRecommendation: the action of a recommendation that has one does
\* nothing; the recommendations with the id are marked
ApplyRecommendation(id) ==
  /\ calls < MaxCalls
  /\ calls' = calls + 1
  /\ IF \E k \in 1..Len(recommendations) : recommendations[k].id = id
       THEN recommendations' =
              [k \in 1..Len(recommendations) |->
                 IF recommendations[k].id = id
                   THEN [recommendations[k] EXCEPT !.applied = TRUE]
                   ELSE recommendations[k]]
       ELSE UNCHANGED recommendations
  /\ last' = [kind |-> "apply", id |-> id]
  /\ UNCHANGED <<tasks, disk, loadPc, loaded, events, reminders, nextTaskId, nextEvent,
                 nextNotif, clock, faults, ops, aiEnv, replies, isAnalyzing, passes>>

DismissRecommendation(id) ==
  /\ calls < MaxCalls
  /\ calls' = calls + 1
  /\ recommendations' = SelectSeq(recommendations, LAMBDA r : r.id # id)
  /\ last' = [kind |-> "dismiss", id |-> id]
  /\ UNCHANGED <<tasks, disk, loadPc, loaded, events, reminders, nextTaskId, nextEvent,
                 nextNotif, clock, faults, ops, aiEnv, replies, isAnalyzing, passes>>

\* the ids the screens hold: those of the recommendations listed
ListedIds == {recommendations[k].id : k \in 1..Len(recommendations)}

\* the deadline of the tasks of the runs
DueAt == LongTick

\* what the filter reads of a task
Variant(priority, status, deadline) ==
  [priority |-> priority, status |-> status, deadline |-> deadline]

\* the first task takes every variant, the second is high-priority and open or
\* completed, the third is low-priority
Variants(k) ==
  IF k = 1
    THEN {Variant("high", "todo", NewDate(DueAt, 0)),
          Variant("high", "completed", NewDate(DueAt, 0)),
          Variant("low", "todo", NewDate(DueAt, 0)),
          Variant("high", "in-progress", Undefined)}
  ELSE IF k = 2
    THEN {Variant("high", "todo", NewDate(DueAt, 0)),
          Variant("high", "completed", NewDate(DueAt, 0))}
  ELSE {Variant("low", "in-progress", NewDate(DueAt, 0))}

TitleOf(id) ==
  IF id = 1 THEN Prose("Write report", {"report"})
  ELSE IF id = 2 THEN Prose("Send report", {"report"})
  ELSE Prose("Email report", {"report", "email"})

\* the collections TaskProvider hands to the assistant: up to the size at which
\* a run asks the AI service
Collections ==
  UNION {{[k \in 1..n |-> AssistantTask(k, TitleOf(k), v[k].priority, v[k].status,
                                        v[k].deadline)]
           : v \in {f \in [1..n -> UNION {Variants(k) : k \in 1..n}] :
                      \A k \in 1..n : f[k] \in Variants(k)}}
         : n \in 0..EnoughTasks}

RecommendInit ==
  /\ AssistantIdle
  /\ tasks = <<>>
  /\ disk = NoFile
  /\ loadPc = "done"
  /\ loaded = NoText
  /\ events = {} /\ reminders = {}
  /\ nextTaskId = 0 /\ nextEvent = 0 /\ nextNotif = 0
  /\ clock = 0 /\ calls = 0 /\ faults = 0
  /\ ops = <<>>
  /\ last = NoOp

RecommendNext ==
  \/ \E ts \in Collections : TasksChanged(ts)
  \/ \E i \in 1..Len(passes) : AnalysisDone(i)
  \/ \E id \in ListedIds : ApplyRecommendation(id)
  \/ \E id \in ListedIds : DismissRecommendation(id)
  \/ Tick(LongTick)

RecommendSpec == RecommendInit /\ [][RecommendNext]_vars

\* ------------------------------------------------------------ properties
\* the mutation that returned in the step just taken
Returned(kind) == last.kind = kind /\ ~last.raised

Stored(id) == getTaskById(tasks, id)

\* C1: a task in the collection carries a calendar-event reference only if
\* it has a deadline; an updateTask that removes the deadline of a task
\* holding a reference has called removeTaskFromCalendar for that reference
\* and stores the task without a reference.
C1_CalendarRefOnlyWithDeadline ==
  /\ \A k \in 1..Len(tasks) :
       tasks[k].calendarEventId # NoRef => Truthy(tasks[k].deadline)
  /\ (Returned("update") /\ ~Truthy(last.task.deadline)
        /\ IsTask(last.old) /\ last.old.calendarEventId # NoRef)
     => /\ "removeTaskFromCalendar" \in Range(last.steps)
        /\ last.pc > Len(last.steps)
        /\ last.task.calendarEventId = NoRef
        /\ \A k \in 1..Len(tasks) :
             tasks[k].id = last.id => tasks[k].calendarEventId = NoRef

C1_DeadlineRemoved ==
  /\ Returned("update")
  /\ ~Truthy(last.task.deadline)
  /\ IsTask(last.old) /\ last.old.calendarEventId # NoRef
  /\ IsTask(Stored(last.id))
  /\ Stored(last.id).calendarEventId = NoRef
  /\ \A e \in events : e.id # last.old.calendarEventId

\* C2: a task in the collection carries reminder references only if it has
\* a deadline, also after an updateTask that removed the deadline of a task
\* that had reminder references.
C2_ReminderRefsOnlyWithDeadline ==
  \A k \in 1..Len(tasks) :
    Len(tasks[k].notificationIds) > 0 => Truthy(tasks[k].deadline)

\* an updateTask that changes the deadline of a stored task from one instant
\* to another has returned
DeadlineMoved ==
  /\ Returned("update")
  /\ IsTask(last.old)
  /\ Truthy(last.old.deadline) /\ Truthy(last.task.deadline)
  /\ last.old.deadline.ms # last.task.deadline.ms

\* C3: when updateTask changes a deadline D1 to a different present deadline
\* D2, the reminders stored for D1 are cancelled, scheduleTaskReminder is
\* called once for D2, and the task is stored with exactly the list that
\* call returned, also when that list is empty.
C3_StoredRemindersAreTheReturnedOnes ==
  DeadlineMoved =>
    /\ Len(last.old.notificationIds) > 0 => "cancelTaskReminders" \in Range(last.steps)
    /\ Cardinality({k \in 1..Len(last.steps) : last.steps[k] = "scheduleTaskReminder"}) = 1
    /\ last.task.notificationIds = last.scheduled
    /\ \A k \in 1..Len(tasks) :
         tasks[k].id = last.id => tasks[k].notificationIds = last.scheduled

\* an updateTask whose deadline denotes the instant of the stored deadline,
\* or where both are absent, has returned
SameInstant ==
  /\ Returned("update")
  /\ IsTask(last.old)
  /\ \/ ~Truthy(last.old.deadline) /\ ~Truthy(last.task.deadline)
     \/ /\ Truthy(last.old.deadline) /\ Truthy(last.task.deadline)
        /\ last.old.deadline.ms = last.task.deadline.ms

\* C4: an updateTask whose new deadline denotes the same instant as the
\* stored one (or where both are absent) makes no calendar call and no
\* reminder call, also when the Date passed is a freshly constructed one.
C4_SameInstantNoAdapterCall ==
  SameInstant => last.steps = <<>>

\* the instants a reminder is due for: thirty minutes before the deadline
\* and the deadline, each only while it is still ahead
DueInstants(deadline, now) ==
  {t \in {deadline.ms - ThirtyMinutes, deadline.ms} : t > now}

TriggersOf(notificationIds) ==
  {r.trigger : r \in {x \in reminders : x.id \in Range(notificationIds)}}

IdsOf(ts) == {ts[k].id : k \in 1..Len(ts)}

\* C6: deleteTask with an id that is not in the collection leaves the tasks
\* of the collection as they are and calls no adapter; deleteTask with an id
\* that is in the collection removes that task and no other.
C6_DeleteRemovesExactlyThatTask ==
  Returned("delete") =>
    /\ ~IsTask(last.old) =>
         /\ last.steps = <<>>
         /\ last.id \notin IdsOf(last.before)
         /\ tasks = last.before
    /\ last.id \notin IdsOf(tasks)
    /\ Range(tasks) = {t \in Range(last.before) : t.id # last.id}
    /\ Len(tasks) = Cardinality(Range(tasks))

C6_DeletedOneOfTwo ==
  /\ Returned("delete")
  /\ IsTask(last.old)
  /\ Len(last.before) = 2
  /\ last.id \in IdsOf(last.before)
  /\ Len(tasks) = 1
  /\ tasks[1].id # last.id

\* the file holds exactly the collection ts: a load would restore it
Persisted(ts) == IF disk = NoFile THEN ts = <<>> ELSE disk = JSONstringify(ts)

\* a mutation has returned and has changed the collection
Mutated ==
  /\ last.kind \in {"add", "update", "delete"}
  /\ ~last.raised
  /\ tasks # last.before

\* C7: after every successful addTask, updateTask or deleteTask a write of
\* the whole resulting collection is triggered, so that once it has settled
\* the file holds exactly the tasks of the in-memory collection; this
\* includes a deleteTask that removes the only remaining task.
C7_EveryMutationIsWritten ==
  (Mutated /\ last.write # "failed") => Persisted(tasks)

\* a date field that came back as a date/time value equal to the original
SameDate(now, before) ==
  IF before.type = "Date" THEN now.type = "Date" /\ now.ms = before.ms
  ELSE now.type = before.type

SameDatesInTask(t, b) ==
  /\ SameDate(t.createdAt, b.createdAt)
  /\ SameDate(t.updatedAt, b.updatedAt)
  /\ SameDate(t.deadline, b.deadline)
  /\ SameDate(t.startTime, b.startTime)
  /\ SameDate(t.completedAt, b.completedAt)
  /\ Truthy(t.recurrence) = Truthy(b.recurrence)
  /\ Truthy(b.recurrence) => SameDate(t.recurrence.endDate, b.recurrence.endDate)
  /\ Truthy(t.timeTracking) = Truthy(b.timeTracking)
  /\ Truthy(b.timeTracking) =>
       /\ Len(t.timeTracking.sessions) = Len(b.timeTracking.sessions)
       /\ \A k \in 1..Len(b.timeTracking.sessions) :
            /\ SameDate(t.timeTracking.sessions[k].startTime,
                        b.timeTracking.sessions[k].startTime)
            /\ SameDate(t.timeTracking.sessions[k].endTime,
                        b.timeTracking.sessions[k].endTime)
  /\ Len(t.comments) = Len(b.comments)
  /\ \A k \in 1..Len(b.comments) : SameDate(t.comments[k].createdAt, b.comments[k].createdAt)

\* C8: a collection that is persisted and loaded back has every date-valued
\* field as a date/time value equal to the original: createdAt, updatedAt,
\* deadline, startTime, completedAt, the sessions' startTime and endTime,
\* the recurrence's endDate and the comments' createdAt.
C8_DatesSurviveReload ==
  last.kind = "reload" =>
    /\ Len(tasks) = Len(last.before)
    /\ \A k \in 1..Len(tasks) : SameDatesInTask(tasks[k], last.before[k])

\* C9: when a calendar or reminder call fails or yields no reference during
\* addTask or updateTask, the mutation completes without raising: the task
\* is inserted or replaced in the collection, without the reference that
\* could not be produced.
C9_AdapterFailureTolerated ==
  last.kind \in {"add", "update"} =>
    /\ ~last.raised
    /\ last.pc = Len(last.steps) + 1
    /\ last.kind = "add" =>
         /\ tasks = Append(last.before, last.task)
         /\ last.task.calendarEventId = last.created
         /\ last.task.notificationIds = last.scheduled
    /\ last.kind = "update" =>
         /\ Len(tasks) = Len(last.before)
         /\ \A k \in 1..Len(tasks) :
              tasks[k] = IF last.before[k].id = last.id THEN last.task ELSE last.before[k]

C9_AddedWithoutEventReference ==
  /\ last.kind = "add"
  /\ Truthy(last.task.deadline) /\ last.task.deadline.ms > last.scheduledAt
  /\ last.steps = <<"addTaskToCalendar", "scheduleTaskReminder">>
  /\ last.created = NoRef
  /\ ~last.raised
  /\ \E k \in 1..Len(tasks) :
       /\ tasks[k].id = last.id
       /\ tasks[k].calendarEventId = NoRef
       /\ tasks[k].notificationIds = last.scheduled

\* C10: when the write triggered by addTask, updateTask or deleteTask fails,
\* the error propagates to the caller of that mutation; a failed load is
\* absorbed and leaves the collection as it was, empty.
C10_WriteFailurePropagates ==
  /\ (last.kind \in {"add", "update", "delete"} /\ last.write = "failed") => last.raised
  /\ (loadPc = "done" /\ calls = 0 /\ disk = NoFile) => tasks = <<>>

\* C11: a mutation is all-or-nothing for the pair (in-memory collection,
\* file): when the write it triggered has failed, the in-memory collection
\* is what it was before the mutation dispatched.
C11_FailedWriteLeavesCollection ==
  (last.kind \in {"add", "update", "delete"} /\ last.write = "failed")
    => /\ tasks = last.before
       /\ Persisted(tasks)

SessionsOf(task) ==
  IF Truthy(task.timeTracking) THEN task.timeTracking.sessions ELSE <<>>

\* C12: for every task, after any sequence of startTaskTimer and
\* stopTaskTimer calls, at most one session has no end time, and if there is
\* one it is the last of the list.
C12_OnlyLastSessionOpen ==
  \A k \in 1..Len(tasks) :
    \A j \in 1..Len(SessionsOf(tasks[k])) :
      ~Truthy(SessionsOf(tasks[k])[j].endTime) => j = Len(SessionsOf(tasks[k]))

\* stopTaskTimer has gone through and its updateTask has returned
Stopped == last.kind = "update" /\ last.via = "stopTaskTimer" /\ ~last.raised

\* m is seconds in minutes, rounded to the nearest whole minute
NearestMinute(m, seconds) ==
  /\ SecondsPerMinute * (2 * m - 1) <= 2 * seconds
  /\ 2 * seconds < SecondsPerMinute * (2 * m + 1)

\* C13: stopTaskTimer on a task whose last session is open closes exactly
\* that session: its end time is now, its duration the elapsed time in
\* minutes rounded to the nearest whole minute (125 seconds give 2), and
\* totalTimeSpent grows by that duration; the earlier sessions are unchanged.
C13_StopClosesLastSession ==
  Stopped =>
    LET before == SessionsOf(last.old)
        after == SessionsOf(last.task)
        n == Len(before)
    IN /\ canStop(last.old)
       /\ Len(after) = n
       /\ \A j \in 1..(n - 1) : after[j] = before[j]
       /\ after[n].startTime = before[n].startTime
       /\ after[n].endTime.type = "Date" /\ after[n].endTime.ms = clock
       /\ NearestMinute(after[n].duration, clock - before[n].startTime.ms)
       /\ last.task.timeTracking.totalTimeSpent
            = last.old.timeTracking.totalTimeSpent + after[n].duration
       /\ \A k \in 1..Len(tasks) :
            tasks[k].id = last.id => tasks[k].timeTracking = last.task.timeTracking

C13_StoppedAfter125Seconds ==
  /\ Stopped
  /\ Len(SessionsOf(last.task)) = 2
  /\ Truthy(SessionsOf(last.task)[1].endTime)
  /\ clock - SessionsOf(last.task)[2].startTime.ms = LongTick
  /\ SessionsOf(last.task)[2].duration = 2
  /\ last.task.timeTracking.totalTimeSpent = last.old.timeTracking.totalTimeSpent + 2
  /\ Stored(last.id).timeTracking = last.task.timeTracking

\* C19: no two tasks of the collection have the same id, and an update
\* leaves the id of the task it replaces as it was.
C19_IdsUnique ==
  /\ \A j, k \in 1..Len(tasks) : tasks[j].id = tasks[k].id => j = k
  /\ (last.kind = "update" /\ IsTask(last.old)) => last.task.id = last.old.id

\* a mutation of a stored task has returned: updateTask, also when called
\* by startTaskTimer or stopTaskTimer
TaskMutated ==
  /\ last.kind = "update" /\ ~last.raised
  /\ IsTask(last.old)
  /\ last.task # last.old

\* C20: updatedAt of a task never decreases and is refreshed on every
\* mutation of the task, the mutations made by startTaskTimer and
\* stopTaskTimer included.
C20_UpdatedAtRefreshed ==
  TaskMutated =>
    /\ last.task.updatedAt.ms >= last.old.updatedAt.ms
    /\ last.task.updatedAt.ms = clock

GatewayOff == ~aiEnv.enabled \/ aiEnv.apiKey = ""

FallbackTexts == {AnalysisText, ScheduleText, HelpText, JSONtext(JSONArray(FallbackSubtasks))}

\* C14: with the gateway disabled or without a credential, no call reaches the
\* network, every text returned is one of the fallback texts, two calls of one
\* entry point with the same user-role message return the same result whatever
\* the task list, and a getAssistantResponse query that mentions "analyze"
\* returns the analysis paragraph.
C14_GatewayOffAnswersFromUserMessage ==
  GatewayOff =>
    \A i \in 1..Len(replies) :
      LET r == replies[i]
      IN  /\ ~r.fetched
          /\ r.fn # "decomposeTask" => r.result \in FallbackTexts
          /\ (r.fn = "getAssistantResponse" /\ includes(r.user, "analyze"))
               => r.result = AnalysisText
          /\ \A j \in 1..Len(replies) :
               (replies[j].fn = r.fn /\ replies[j].user = r.user)
                 => replies[j].result = r.result

\* two "analyze" queries over different task lists, gateway off
C14_SameQueryOtherTasks ==
  /\ GatewayOff
  /\ Len(replies) = 2
  /\ replies[1].fn = "getAssistantResponse" /\ replies[2].fn = "getAssistantResponse"
  /\ replies[1].user = replies[2].user
  /\ includes(replies[1].user, "analyze")
  /\ replies[1].tasks # replies[2].tasks
  /\ replies[1].result = AnalysisText /\ replies[2].result = AnalysisText

\* C15: whatever the remote call does, analyzeTaskPatterns and
\* getAssistantResponse return a string: the fallback text, or after a
\* successful response the content of the first completion.
C15_EveryOutcomeReturnsAString ==
  \A i \in 1..Len(replies) :
    replies[i].fn \in {"analyzeTaskPatterns", "getAssistantResponse"}
      => /\ replies[i].result.type = "string"
         /\ \/ replies[i].result \in FallbackTexts
            \/ /\ replies[i].response.kind = "response"
               /\ replies[i].response.status = 200
               /\ replies[i].result = firstContent(replies[i].response.body)

TransportThrew(r) ==
  \/ r.response.kind = "rejected"
  \/ r.response.kind = "response" /\ r.response.status \notin {200, 401}

\* C16: a decomposeTask call whose transport throws returns the fixed 5-item
\* list, for every title and description.
C16_ThrowingTransportGivesFixedList ==
  \A i \in 1..Len(replies) :
    (replies[i].fn = "decomposeTask" /\ TransportThrew(replies[i]))
      => replies[i].result = JSONArray(DefaultSubtasks)

\* C17: when the text decomposeTask obtained, fences stripped, does not parse
\* or parses to a value that is not an array, the result is the fixed 5-item
\* list; when it parses to an array, the result is that array.
C17_NonArrayGivesFixedList ==
  \A i \in 1..Len(replies) :
    (replies[i].fn = "decomposeTask" /\ replies[i].text.type = "string")
      => LET subtasks == JSONparse(stripFences(replies[i].text))
         IN  IF subtasks.type = "array"
               THEN replies[i].result = subtasks
               ELSE replies[i].result = JSONArray(DefaultSubtasks)

\* open, high-priority and due before `now`
OverdueHighPriority(task, now) ==
  /\ task.status # "completed"
  /\ task.priority = "high"
  /\ Truthy(task.deadline)
  /\ task.deadline.ms < now

Prioritizations(recs) == SelectSeq(recs, LAMBDA r : r.type = "prioritization")

\* C18: a recommendation pass over a collection with an open high-priority
\* task whose deadline is past appends exactly one prioritization
\* recommendation, with the ids of exactly those tasks and their count in the
\* message; a pass over a collection without such a task appends none.
C18_OnePrioritizationPerPass ==
  last.kind = "pass" =>
    LET overdue == SelectSeq(last.tasks, LAMBDA task : OverdueHighPriority(task, last.now))
        appended == SubSeq(recommendations,
                           Len(recommendations) - Len(last.added) + 1, Len(recommendations))
        found == Prioritizations(appended)
    IN  /\ Len(recommendations) >= Len(last.added)
        /\ appended = last.added
        /\ IF overdue = <<>>
             THEN found = <<>>
             ELSE /\ Len(found) = 1
                  /\ found[1].taskIds = ids(overdue)
                  /\ found[1].message.count = Len(overdue)

\* a pass that awaited the AI call, over three tasks of which the first two are overdue
C18_TwoOverdueOfThree ==
  /\ last.kind = "pass"
  /\ Len(last.tasks) = 3
  /\ Len(Prioritizations(last.added)) = 1
  /\ Prioritizations(last.added)[1].taskIds = <<1, 2>>
  /\ Prioritizations(last.added)[1].message.count = 2
  /\ Len(Prioritizations(recommendations)) = 2

\* C21: a mutation changes the collection (and with it triggers the write)
\* only after every calendar and notification call it makes has settled; a
\* delete whose calls succeeded finds the reminders cancelled and the event
\* removed when the task leaves the collection.
C21_AdaptersSettleBeforeDispatch ==
  /\ \A i \in 1..Len(ops) : ops[i].pc <= Len(ops[i].steps)
  /\ (last.kind \in {"add", "update", "delete"} /\ ~last.raised)
       => last.pc = Len(last.steps) + 1
  /\ (Returned("delete") /\ IsTask(last.old) /\ faults = 0)
       => /\ \A r \in reminders : r.id \notin Range(last.old.notificationIds)
          /\ \A e \in events : e.id # last.old.calendarEventId

\* a delete that cancelled two reminders and removed the event has returned
C21_DeletedAfterBothCalls ==
  /\ Returned("delete")
  /\ last.steps = <<"cancelTaskReminders", "removeTaskFromCalendar">>
  /\ last.pc = 3
  /\ IsTask(getTaskById(last.before, last.id))
  /\ ~IsTask(Stored(last.id))
  /\ events = {} /\ reminders = {}

\* C22: when an updateTask returns, the task stored under its id is exactly
\* the payload it dispatched, whatever another mutation of the same id wrote
\* since this one looked the task up, and every other task is as it was.
C22_LastWriterWins ==
  Returned("update") =>
    /\ Len(tasks) = Len(last.before)
    /\ \A k \in 1..Len(tasks) :
         tasks[k] = IF last.before[k].id = last.id THEN last.task ELSE last.before[k]

\* an updateTask returns after another mutation of the same task, started
\* later, has changed the status it had read: that change is gone
C22_OverlappingUpdateOverwritten ==
  /\ Returned("update")
  /\ IsTask(last.old)
  /\ IsTask(getTaskById(last.before, last.id))
  /\ getTaskById(last.before, last.id).status # last.old.status
  /\ last.task.status = last.old.status
  /\ Stored(last.id) = last.task

\* C25: an updateTask that returns when no task of the collection has its id
\* leaves the collection as it is: a task removed by deleteTask is not put
\* back by an update that was in flight or is issued afterwards.
C25_UpdateNeverInserts ==
  (Returned("update") /\ ~IsTask(getTaskById(last.before, last.id)))
    => /\ tasks = last.before
       /\ ~IsTask(Stored(last.id))

\* an updateTask that had looked its task up returns after a deleteTask
\* removed it
C25_UpdateReturnedAfterDelete ==
  /\ Returned("update")
  /\ IsTask(last.old)
  /\ ~IsTask(getTaskById(last.before, last.id))
  /\ ~IsTask(Stored(last.id))

\* C23: with service calls that always succeed, once no mutation is in
\* flight every calendar event and every scheduled reminder is referenced by
\* a task of the collection.
C23_NoOrphans ==
  ops = <<>> =>
    /\ \A e \in events : \E k \in 1..Len(tasks) : tasks[k].calendarEventId = e.id
    /\ \A r \in reminders : \E k \in 1..Len(tasks) : r.id \in Range(tasks[k].notificationIds)

\* C24: every task that was in the collection when loadTasks dispatched
\* SET_TASKS, a task added while the file was being read among them, is in
\* the collection afterwards.
C24_LoadKeepsAddedTasks ==
  last.kind = "load" =>
    \A k \in 1..Len(last.before) : IsTask(getTaskById(tasks, last.before[k].id))

\* a timer function has returned early in the step just taken
TimerNoOp == last.kind = "noop"

\* the step is a call of the timer function named: it returned early or went
\* through updateTask
TimerCall(via) == last'.kind \in {"noop", "update"} /\ last'.via = via

\* no task, no time-tracking record, no session, or a closed last session
NothingToStop(task) ==
  \/ ~IsTask(task)
  \/ ~Truthy(task.timeTracking)
  \/ SessionsOf(task) = <<>>
  \/ Truthy(SessionsOf(task)[Len(SessionsOf(task))].endTime)

\* what a step that calls a timer function does
TimerStep ==
  /\ TimerCall("startTaskTimer")
       => (~IsTask(getTaskById(tasks, last'.id)) => last'.kind = "noop")
  /\ TimerCall("stopTaskTimer")
       => (NothingToStop(getTaskById(tasks, last'.id)) => last'.kind = "noop")
  /\ (last'.kind = "noop")
       => UNCHANGED <<tasks, disk, events, reminders, nextEvent, nextNotif, ops>>

\* C26: startTaskTimer on an id that no task has, and stopTaskTimer on such
\* an id, on a task without time-tracking record or on a task whose last
\* session is absent or closed, return early, and an early return leaves
\* the collection and the file as they are and calls no adapter.
C26_TimerNoOps == [][TimerStep]_vars

\* stopTaskTimer has returned early on the tracked task, whose last session is closed
C26_StopOnClosedSession ==
  /\ TimerNoOp
  /\ last.via = "stopTaskTimer"
  /\ IsTask(Stored(last.id))
  /\ SessionsOf(Stored(last.id)) # <<>>
  /\ Truthy(SessionsOf(Stored(last.id))[Len(SessionsOf(Stored(last.id)))].endTime)
  /\ tasks = last.before

\* updateTask called by a timer function has returned
TimerReturned ==
  /\ last.kind = "update"
  /\ last.via \in {"startTaskTimer", "stopTaskTimer"}
  /\ ~last.raised

\* C27: a timer function calls no calendar or notification adapter and
\* changes nothing but the time-tracking record of the task addressed: its
\* other fields and the other tasks are as before.
C27_TimersChangeOnlyTimeTracking ==
  TimerReturned =>
    /\ last.steps = <<>>
    /\ IsTask(last.old)
    /\ [last.task EXCEPT !.timeTracking = last.old.timeTracking] = last.old
    /\ Len(tasks) = Len(last.before)
    /\ \A k \in 1..Len(tasks) :
         tasks[k] = IF last.before[k].id = last.id THEN last.task ELSE last.before[k]

\* a timer started later than the task was created, on the task with deadline,
\* event and reminders, next to another task
C27_StartedLater ==
  /\ TimerReturned
  /\ last.via = "startTaskTimer"
  /\ clock > last.old.createdAt.ms
  /\ Truthy(Stored(last.id).deadline)
  /\ Stored(last.id).calendarEventId # NoRef
  /\ Len(tasks) = 2
  /\ SessionsOf(Stored(last.id)) # SessionsOf(last.old)

RECURSIVE ClosedMinutes(_)
\* the sum of the durations of the closed sessions
ClosedMinutes(sessions) ==
  IF sessions = <<>> THEN 0
  ELSE (IF Truthy(sessions[1].endTime) THEN sessions[1].duration ELSE 0)
       + ClosedMinutes(Tail(sessions))

\* C28: totalTimeSpent of every task is non-negative and is the sum of the
\* durations of its closed sessions.
C28_TotalIsSumOfClosedSessions ==
  \A k \in 1..Len(tasks) :
    Truthy(tasks[k].timeTracking) =>
      /\ tasks[k].timeTracking.totalTimeSpent >= 0
      /\ tasks[k].timeTracking.totalTimeSpent = ClosedMinutes(tasks[k].timeTracking.sessions)

\* two closed sessions of two minutes each
C28_TwoClosedSessions ==
  \E k \in 1..Len(tasks) :
    /\ Truthy(tasks[k].timeTracking)
    /\ Len(tasks[k].timeTracking.sessions) = 2
    /\ \A j \in 1..2 : Truthy(tasks[k].timeTracking.sessions[j].endTime)
                       /\ tasks[k].timeTracking.sessions[j].duration = 2
    /\ tasks[k].timeTracking.totalTimeSpent = 4

\* what a step does to the list of recommendations
RecommendationsStep ==
  /\ (last'.kind # "dismiss")
       => /\ Len(recommendations') >= Len(recommendations)
          /\ \A k \in 1..Len(recommendations) :
               /\ [recommendations'[k] EXCEPT !.applied = recommendations[k].applied]
                    = recommendations[k]
               /\ recommendations[k].applied => recommendations'[k].applied
  /\ (last'.kind = "pass")
       => /\ SubSeq(recommendations', 1, Len(recommendations)) = recommendations
          /\ SubSeq(recommendations', Len(recommendations) + 1, Len(recommendations'))
               = last'.added
  /\ (last'.kind = "dismiss")
       => recommendations' = SelectSeq(recommendations, LAMBDA r : r.id # last'.id)

\* C29: a recommendation pass appends its recommendations to the list and
\* removes, replaces or merges none of those already there; the list shrinks
\* only by dismissRecommendation, and a recommendation, applied or not, keeps
\* its place until then.
C29_PassesOnlyAppend == [][RecommendationsStep]_vars

\* a second pass over the same collection has added the same recommendations
\* again, behind those of the first
C29_SecondPassAppended ==
  /\ last.kind = "pass"
  /\ Len(recommendations) = 2 * Len(last.added)
  /\ \A k \in 1..Len(last.added) :
       /\ recommendations[k].type = last.added[k].type
       /\ recommendations[k].taskIds = last.added[k].taskIds
       /\ recommendations[Len(last.added) + k] = last.added[k]

\* C30: isAnalyzing is true exactly while a recommendation pass is in flight.
C30_AnalyzingWhilePassInFlight == isAnalyzing <=> passes # <<>>
====
